---- MODULE Spec2Model ----
(***************************************************************************)
(* State-machine model of the SMART backend-services client                *)
(* (src/src/client.js: class Client and class InMemoryPersistence) and of  *)
(* the receiving side (src/src/server.js: class ServerUtils).              *)
(*                                                                         *)
(* Every async method is cut at its await points: one action per           *)
(* synchronous run between two awaits.  Network requests (axios) are sent  *)
(* in one action and answered by the environment in a later one, with a    *)
(* response drawn from a small set or a failure.                           *)
(*                                                                         *)
(* Specifications: Spec (one caller awaiting each call), SpecKeys (every   *)
(* key set and option of the constructor), SpecConc (calls in flight       *)
(* together), SpecVerify (validateAccessToken), SpecUtils (ServerUtils),   *)
(* SpecStore (InMemoryPersistence used directly).                          *)
(***************************************************************************)
EXTENDS Integers, Sequences, FiniteSets, TLC

(* ---------------------------- bounds ----------------------------------- *)

\* Date.now() / 1000 ranges over 0 .. MaxTime.
MaxTime == 2

\* expires_in of a token ranges over 0 .. MaxExpires.
MaxExpires == 2

\* Counters of the history kept for checking stop at MaxCount ("or more").
MaxCount == 2

(* ---------------------------- values ----------------------------------- *)

Servers == {"s1", "s2"}

\* Slots for calls in flight on one Client instance.
Calls == {1, 2}

\* JavaScript's undefined and null; every value that may be either is a record.
undefined == [js |-> "undefined"]
null == [js |-> "null"]

\* JavaScript truthiness of an object-or-undefined-or-null value.
Truthy(v) == v # undefined /\ v # null

URL(server, path) == [host |-> server, path |-> path]

WellKnown(server) == URL(server, "/.well-known/smart-configuration")

\* A smart-configuration document as the SMART specification names its
\* fields: the key set location is jwks_uri.
DocStd(s) ==
  [token_endpoint |-> URL(s, "/auth/token"),
   registration_endpoint |-> URL(s, "/auth/register"),
   jwks_uri |-> URL(s, "/jwks"),
   jwks_url |-> undefined]

\* A document that names the key set location jwks_url, the field
\* loadServerKeys reads.
DocUrl(s) ==
  [token_endpoint |-> URL(s, "/auth/token"),
   registration_endpoint |-> URL(s, "/auth/register"),
   jwks_uri |-> undefined,
   jwks_url |-> URL(s, "/jwks")]

\* A document of a server that offers no dynamic registration.
DocNoReg(s) ==
  [token_endpoint |-> URL(s, "/auth/token"),
   registration_endpoint |-> undefined,
   jwks_uri |-> undefined,
   jwks_url |-> URL(s, "/jwks")]

ServerConfigs(s) == {DocStd(s), DocUrl(s), DocNoReg(s)}

\* A configuration, stored by hand, that carries the server's keys itself.
DocInline(s) ==
  [token_endpoint |-> URL(s, "/auth/token"),
   registration_endpoint |-> undefined,
   jwks_uri |-> undefined,
   jwks_url |-> undefined,
   jwks |-> [keys |-> "k0"]]

\* config.jwks: undefined for a configuration without that property.
jwksOf(config) ==
  IF "jwks" \in DOMAIN config THEN config.jwks ELSE undefined

\* The configurations a ServerUtils may be constructed with.
UtilsConfigs ==
  {[jwks |-> jwks, jwks_uri |-> uri, introspection_endpoint |-> ep] :
     jwks \in {undefined,
               [keys |-> <<[kty |-> "RSA", kid |-> "v", use |-> "sig",
                            d |-> undefined]>>]},
     uri \in {undefined, URL("s1", "/jwks")},
     ep \in {undefined, URL("s1", "/introspect")}}

\* Bearer tokens handed in for validation.
BearerTokens == {[jwt |-> "b1"], [jwt |-> "b2"]}

\* Registration responses (registered_client.json in the tests).
ClientConfigs == {[client_id |-> "c1"], [client_id |-> "c2"]}

\* Key sets a server publishes (server-keys.json in the tests).
ServerKeySets == {[keys |-> "k1"]}

\* Token endpoint responses (access_token.json in the tests).
TokenResponses ==
  {[access_token |-> a, expires_in |-> e] : a \in {"t1"}, e \in 0..MaxExpires}

\* Tokens a caller may cache by hand through addAccessToken.
ManualTokens(t) ==
  {[access_token |-> "tm", expires_in |-> e, issued_at |-> i] :
      e \in 0..MaxExpires, i \in 0..t}

\* A private JWK of the client: its public parameters and the private
\* exponent d.
PrivateKey(kid, use) ==
  [kty |-> "RSA", kid |-> kid, use |-> use, d |-> [secret |-> kid]]

\* The public half of a key: the same key without the private exponent.
PublicHalf(key) == [key EXCEPT !.d = undefined]

\* The private key sets a Client may be constructed with (jwks.json in the
\* tests): each is a JWK set, its keys in order.
ClientKeySets ==
  {[keys |-> ks] :
     ks \in {<<PrivateKey("a", "sig")>>,
             <<PrivateKey("a", "sig"), PrivateKey("b", "sig")>>,
             <<PrivateKey("e", "enc"), PrivateKey("a", "sig")>>,
             <<PrivateKey("e", "enc")>>}}

\* The options a Client may be constructed with; "" stands for a
\* signingKeyId that is not given.
ClientOptions ==
  {[signingKeyId |-> kid, client_name |-> undefined, jwks_uri |-> uri] :
     kid \in {"", "a", "x"},
     uri \in {undefined, URL("client", "/jwks.json")}}

(* ------------------------ InMemoryPersistence -------------------------- *)

\* The key a non-string property name is converted to.
ToPropertyKey(obj) == "[object Object]"

PropertyKeys == Servers \cup {ToPropertyKey(undefined)}

\* cache.servers is an array that is also written by property name:
\* elems holds the pushed elements (as a set: nothing reads them or their
\* order), props the named properties.  cache.serverConfig is never used.
EmptyCache ==
  [servers |-> [elems |-> {}, props |-> [k \in PropertyKeys |-> undefined]],
   clientConfig |-> [s \in Servers |-> undefined],
   accessTokens |-> [s \in Servers |-> undefined],
   serverKeys |-> [s \in Servers |-> undefined]]

addServer(ch, server) ==
  [ch EXCEPT !.servers.elems = @ \cup {server}]

addServerConfiguration(ch, server, config) ==
  [ch EXCEPT !.servers.props[server] = config]

getServerConfiguration(ch, server) == ch.servers.props[server]

\* addClientConfiguration losing the write.
addClientConfigurationLost(ch, server, client) == ch

addClientConfiguration(ch, server, client) ==
  [ch EXCEPT !.clientConfig[server] = client]

getClientConfiguration(ch, server) == ch.clientConfig[server]

\* addAccessToken storing the token for every server.
addAccessTokenShared(ch, server, token) ==
  [ch EXCEPT !.accessTokens = [s \in Servers |-> token]]

addAccessToken(ch, server, token) ==
  [ch EXCEPT !.accessTokens[server] = token]

getAccessToken(ch, server) == ch.accessTokens[server]

\* Lines 352-358.
getServerKeys(ch, server) ==
  IF ~Truthy(ch.serverKeys[server]) /\ Truthy(getServerConfiguration(ch, server))
    THEN jwksOf(getServerConfiguration(ch, server))
    ELSE ch.serverKeys[server]

addServerKeys(ch, server, keys) ==
  [ch EXCEPT !.serverKeys[server] = keys]

\* The server may be left out; "" stands for the missing (falsy) argument.
clearTokens(ch, server) ==
  IF server = ""
    THEN [ch EXCEPT !.accessTokens = [s \in Servers |-> undefined]]
    ELSE [ch EXCEPT !.accessTokens[server] = undefined]

(* ------------------------------ state ---------------------------------- *)

VARIABLES
  cache,      \* persistence.cache
  now,        \* Date.now() / 1000
  calls,      \* per slot: the call in flight, its locals and its position
  registrations, \* per server: what register has done so far (history)
  this,       \* the fields of the Client instance
  utils,      \* the fields of the ServerUtils instance
  last        \* per map and server: the value of the latest add (history)

vars == <<cache, now, calls, registrations, this, utils, last>>

NoResult == [status |-> "none", value |-> undefined]
Return(v) == [status |-> "return", value |-> v]
Throw(e) == [status |-> "throw", value |-> [error |-> e]]

\* History of register for one server: the registration POSTs sent
\* (counted up to MaxCount), whether one of them failed, the values register
\* has returned, and whether the caller stored a client configuration by hand.
NoRegistrations ==
  [posts |-> 0, failed |-> FALSE, returned |-> {}, manual |-> FALSE]

Counted(n) == IF n < MaxCount THEN n + 1 ELSE MaxCount

IdleCall ==
  [op |-> "none", server |-> "none", pc |-> "idle",
   arg |-> undefined,             \* addServer: serverConfig; validate*: token
   verifyWith |-> undefined,      \* the key store handed to jose.JWS.createVerify
   accessToken |-> undefined,     \* requestAccessToken / requestToken: accessToken
   serverConfig |-> undefined,    \* requestAccessToken: serverConfig; loadServerKeys: config
   client |-> undefined,          \* register: config; getServerKeystore: serverKS (line 46)
   regServerConfig |-> undefined, \* register: serverConfig
   data |-> undefined,            \* response.data of the last answered request
   sent |-> <<>>,                 \* requests this call has put on the network
   checkedAt |-> -1,              \* Date.now() / 1000 read by the freshness test
   pre |-> undefined,             \* persistence.cache when the call started
   result |-> NoResult]

\* new Client(jwks, persistence, options)
NewClient(jwks, options) ==
  [jwks |-> jwks,
   serverKeyStores |-> [s \in Servers |-> undefined],
   signingKeyId |-> options.signingKeyId,
   options |-> options,
   keystore |-> undefined]

\* new ServerUtils(serverConfiguration)
NewServerUtils(serverConfiguration) ==
  [serverConfiguration |-> serverConfiguration, keystore |-> undefined]

\* new Client(jwks) as the tests construct it: one signing key, no options.
TestClient ==
  NewClient([keys |-> <<PrivateKey("a", "sig")>>],
            [signingKeyId |-> "", client_name |-> undefined,
             jwks_uri |-> undefined])

\* A ServerUtils over a configuration with an inline key set.
TestServerUtils ==
  NewServerUtils([jwks |-> [keys |-> "k1"], jwks_uri |-> undefined,
                  introspection_endpoint |-> undefined])

\* Nothing has been added to any map.
NoAdds ==
  [serverConfig |-> [s \in Servers |-> undefined],
   clientConfig |-> [s \in Servers |-> undefined],
   accessTokens |-> [s \in Servers |-> undefined]]

InitStore ==
  /\ cache = EmptyCache
  /\ now = 0
  /\ calls = [c \in Calls |-> IdleCall]
  /\ registrations = [s \in Servers |-> NoRegistrations]
  /\ last = NoAdds

Init ==
  /\ InitStore
  /\ this = TestClient
  /\ utils = TestServerUtils

(* ------------------------- Client: pure parts -------------------------- *)

\* Lifetime in seconds of a client assertion.
AssertionLifetime == 300

\* Fresh with the lifetime left out of the test.
FreshIgnoringLifetime(token, t) == token.issued_at > t

\* Fresh with a non-strict comparison.
FreshInclusive(token, t) == token.issued_at + token.expires_in >= t

\* The freshness test of requestAccessToken.
Fresh(token, t) == token.issued_at + token.expires_in > t

\* Stamp without the division of Date.now() by 1000.
StampMillis(data, t) ==
  [access_token |-> data.access_token,
   expires_in |-> data.expires_in,
   issued_at |-> t * 1000]

\* token = response.data; token.issued_at = Date.now() / 1000
Stamp(data, t) ==
  [access_token |-> data.access_token,
   expires_in |-> data.expires_in,
   issued_at |-> t]

\* jose.JWK.asKeyStore(jwks): the keys of the set, in order.
asKeyStore(jwks) == [keys |-> jwks.keys]

\* Lines 26-37, for a key set with keys: the cached store, or a new one.
getKeystore ==
  IF Truthy(this.keystore) THEN this.keystore ELSE asKeyStore(this.jwks)

\* keystore.get(kid): the first key with that kid, or null.
get(keystore, kid) ==
  LET found == SelectSeq(keystore.keys, LAMBDA key : key.kid = kid)
  IN  IF found = <<>> THEN null ELSE found[1]

\* keystore.all({use: ...}): every key of that use, in order.
all(keystore, use) == SelectSeq(keystore.keys, LAMBDA key : key.use = use)

\* Lines 65-71, as the list of signatories createSign makes of the value:
\* the one value keystore.get returned (a key or null), or the elements of
\* the array keystore.all returned.
getKeyOrDefault(kid) ==
  IF kid # ""
    THEN <<get(getKeystore, kid)>>
    ELSE all(getKeystore, "sig")

\* Lines 79-94: the claims of the assertion (the random jti is left out)
\* signed in the compact form, which holds the signature of exactly one key;
\* createSign rejects any other list of signatories.
generateJWT(client_id, aud, kid, t) ==
  LET key == getKeyOrDefault(kid)
  IN  IF Len(key) = 1 /\ Truthy(key[1])
        THEN Return([sub |-> client_id, iss |-> client_id, aud |-> aud,
                     exp |-> t + AssertionLifetime,
                     alg |-> "RS384", signer |-> key[1].kid])
        ELSE Throw("Error")

scopes == "system/*.read"

\* axios.post(serverConfig.token_endpoint, qs.stringify(params), config)
TokenRequest(serverConfig, client, t) ==
  [method |-> "POST",
   url |-> serverConfig.token_endpoint,
   body |-> [client_assertion |->
               generateJWT(client.client_id, serverConfig.token_endpoint,
                           this.signingKeyId, t).value,
             client_assertion_type |-> "",
             grant_type |-> "client_credentials",
             scopes |-> scopes]]

\* Lines 261-274.
generateRegistrationMetaData ==
  LET config == [client_name |-> this.options.client_name,
                 token_endpoint_auth_method |-> "client_credentials",
                 jwks_uri |-> undefined,
                 jwks |-> undefined]
  IN  IF Truthy(this.options.jwks_uri)
        THEN [config EXCEPT !.jwks_uri = this.options.jwks_uri]
        ELSE [config EXCEPT !.jwks = this.jwks]

\* axios.post(serverConfig.registration_endpoint, this.generateRegistrationMetaData())
RegistrationRequest(serverConfig) ==
  [method |-> "POST",
   url |-> serverConfig.registration_endpoint,
   body |-> generateRegistrationMetaData]

GetRequest(url) == [method |-> "GET", url |-> url, body |-> undefined]

(* ----------------------------- network --------------------------------- *)

\* What a reachable endpoint may answer with (response.data).
Answers(req) ==
  CASE req.url.path = "/auth/token" -> TokenResponses
    [] req.url.path = "/auth/register" -> ClientConfigs
    [] req.url.path = "/jwks" -> ServerKeySets
    [] req.url.path = "/.well-known/smart-configuration" ->
         ServerConfigs(req.url.host)
    [] OTHER -> {}

\* The outcomes of an awaited request: response.data, or a rejection.
Outcomes(req) ==
  {[ok |-> TRUE, data |-> d] : d \in Answers(req)}
    \cup {[ok |-> FALSE, data |-> undefined]}

(* ------------------------- call bookkeeping ---------------------------- *)

Idle(c) == calls[c].pc = "idle"

\* No call has been started and not yet handed back to its caller.
Quiescent == \A c \in Calls : Idle(c)

\* Calls are started in the lowest free slot.
FirstIdle(c) == Idle(c) /\ \A d \in Calls : d < c => ~Idle(d)

Begin(op, server) ==
  [IdleCall EXCEPT !.op = op, !.server = server, !.pre = cache]

Done(k, result) == [k EXCEPT !.pc = "done", !.result = result]

\* axios.get / axios.post: a request without a url is rejected before
\* anything is sent; otherwise it is sent and awaited at position pc.
Send(k, req, pc) ==
  IF ~Truthy(req.url)
    THEN Done(k, Throw("RequestError"))
    ELSE [k EXCEPT !.pc = pc, !.sent = Append(@, req)]

Pending(k) == k.sent[Len(k.sent)]

\* Line 218: the assertion for the token endpoint, or the error of signing.
Signed(serverConfig, client, t) ==
  generateJWT(client.client_id, serverConfig.token_endpoint,
              this.signingKeyId, t)

\* The Client instance after lines 217-218: generateJWT, when it is reached,
\* leaves the parsed key set cached in this.keystore.
ThisAfterExchange(k, client) ==
  IF Truthy(client) /\ Truthy(k.serverConfig)
    THEN [this EXCEPT !.keystore = getKeystore]
    ELSE this

\* Exchange returning null, instead of throwing, without a client.
ExchangeNullWithoutClient(k, client, t) ==
  IF Truthy(client)
    THEN IF ~Truthy(k.serverConfig)
           THEN Done(k, Throw("TypeError"))
           ELSE IF Signed(k.serverConfig, client, t).status = "throw"
             THEN Done(k, Signed(k.serverConfig, client, t))
             ELSE Send(k, TokenRequest(k.serverConfig, client, t), "tok_post")
    ELSE Done(k, Return(null))

\* Lines 217-239 of requestAccessToken, up to the await of axios.post.
Exchange(k, client, t) ==
  IF Truthy(client)
    THEN IF ~Truthy(k.serverConfig)
           THEN Done(k, Throw("TypeError"))
           ELSE IF Signed(k.serverConfig, client, t).status = "throw"
             THEN Done(k, Signed(k.serverConfig, client, t))
             ELSE Send(k, TokenRequest(k.serverConfig, client, t), "tok_post")
    ELSE Done(k, Throw("Client information not found"))

\* register returns v: to its caller, or into requestAccessToken line 214.
RegisterReturns(k, v, t) ==
  IF k.op = "register" THEN Done(k, Return(v)) ELSE Exchange(k, v, t)

ThisAfterRegister(k, v) ==
  IF k.op = "register" THEN this ELSE ThisAfterExchange(k, v)

(* --------------------------- requestAccessToken ------------------------ *)

\* Line 205: the cached token is read, then the call awaits.
CallRequestAccessToken(c, server) ==
  /\ FirstIdle(c)
  /\ calls' = [calls EXCEPT ![c] =
       [Begin("requestAccessToken", server) EXCEPT
          !.pc = "rat_check",
          !.accessToken = getAccessToken(cache, server)]]
  /\ UNCHANGED <<cache, now, registrations, this, utils, last>>

\* Lines 206-231: the freshness test; on a miss the configurations are read
\* and either register is entered (its line 283 reads the client
\* configuration in the same synchronous run) or the exchange is started.
RatCheck(c) ==
  /\ calls[c].pc = "rat_check"
  /\ LET k0 == calls[c]
         k == [k0 EXCEPT !.checkedAt = now]
         serverConfig == getServerConfiguration(cache, k.server)
         client == getClientConfiguration(cache, k.server)
         k1 == [k EXCEPT !.serverConfig = serverConfig]
     IN  /\ calls' = [calls EXCEPT ![c] =
           IF Truthy(k.accessToken) /\ Fresh(k.accessToken, now)
             THEN Done(k, Return(k.accessToken))
             ELSE IF ~Truthy(client)
               THEN IF ~Truthy(serverConfig)
                      THEN Done(k1, Throw("TypeError"))
                      ELSE IF Truthy(serverConfig.registration_endpoint)
                        THEN [k1 EXCEPT
                                !.pc = "reg_got_client",
                                !.client = getClientConfiguration(cache, k.server)]
                        ELSE Exchange(k1, client, now)
               ELSE Exchange(k1, client, now)]
         /\ this' =
              IF Truthy(k.accessToken) /\ Fresh(k.accessToken, now)
                THEN this
                ELSE ThisAfterExchange(k1, client)
  /\ UNCHANGED <<cache, now, registrations, utils, last>>

\* TokenResponse dropping the cached token when the exchange fails.
TokenResponseDropsToken(c) ==
  /\ calls[c].pc = "tok_post"
  /\ \E o \in Outcomes(Pending(calls[c])) :
       LET k == [calls[c] EXCEPT !.data = o.data]
           token == Stamp(o.data, now)
       IN  IF o.ok
             THEN /\ cache' = addAccessToken(cache, k.server, token)
                  /\ calls' = [calls EXCEPT ![c] = Done(k, Return(token))]
             ELSE /\ calls' = [calls EXCEPT ![c] = Done(k, Throw("RequestError"))]
                  /\ cache' = clearTokens(cache, k.server)
  /\ UNCHANGED <<now, registrations, this, utils, last>>

\* Lines 231-235: the token endpoint answers.
TokenResponse(c) ==
  /\ calls[c].pc = "tok_post"
  /\ \E o \in Outcomes(Pending(calls[c])) :
       LET k == [calls[c] EXCEPT !.data = o.data]
           token == Stamp(o.data, now)
       IN  IF o.ok
             THEN /\ cache' = addAccessToken(cache, k.server, token)
                  /\ calls' = [calls EXCEPT ![c] = Done(k, Return(token))]
             ELSE /\ calls' = [calls EXCEPT ![c] = Done(k, Throw("RequestError"))]
                  /\ UNCHANGED cache
  /\ UNCHANGED <<now, registrations, this, utils, last>>

(* ------------------------------ requestToken --------------------------- *)

\* Line 254.
CallRequestToken(c, server) ==
  /\ FirstIdle(c)
  /\ calls' = [calls EXCEPT ![c] =
       [Begin("requestToken", server) EXCEPT
          !.pc = "rt_got",
          !.accessToken = getAccessToken(cache, server)]]
  /\ UNCHANGED <<cache, now, registrations, this, utils, last>>

\* RtGot returning the cached token only while it is fresh.
RtGotFreshOnly(c) ==
  /\ calls[c].pc = "rt_got"
  /\ LET k == calls[c]
     IN  calls' = [calls EXCEPT ![c] =
           IF Truthy(k.accessToken) /\ Fresh(k.accessToken, now)
             THEN Done(k, Return(k.accessToken))
             ELSE [k EXCEPT !.pc = "rat_check",
                            !.accessToken = getAccessToken(cache, k.server)]]
  /\ UNCHANGED <<cache, now, registrations, this, utils, last>>

\* Line 255: any cached token is returned; otherwise requestAccessToken is
\* entered and reads the cached token again (its line 205).
RtGot(c) ==
  /\ calls[c].pc = "rt_got"
  /\ LET k == calls[c]
     IN  calls' = [calls EXCEPT ![c] =
           IF Truthy(k.accessToken)
             THEN Done(k, Return(k.accessToken))
             ELSE [k EXCEPT !.pc = "rat_check",
                            !.accessToken = getAccessToken(cache, k.server)]]
  /\ UNCHANGED <<cache, now, registrations, this, utils, last>>

(* -------------------------------- register ----------------------------- *)

\* Line 283.
CallRegister(c, server) ==
  /\ FirstIdle(c)
  /\ calls' = [calls EXCEPT ![c] =
       [Begin("register", server) EXCEPT
          !.pc = "reg_got_client",
          !.client = getClientConfiguration(cache, server)]]
  /\ UNCHANGED <<cache, now, registrations, this, utils, last>>

\* RegGotClient registering again whatever the store holds.
RegGotClientAlways(c) ==
  /\ calls[c].pc = "reg_got_client"
  /\ LET k == calls[c]
     IN  calls' = [calls EXCEPT ![c] =
           [k EXCEPT
              !.pc = "reg_got_cfg",
              !.regServerConfig = getServerConfiguration(cache, k.server)]]
  /\ UNCHANGED <<cache, now, registrations, this, utils, last>>

\* Lines 284-287.
RegGotClient(c) ==
  /\ calls[c].pc = "reg_got_client"
  /\ LET k == calls[c]
     IN  /\ calls' = [calls EXCEPT ![c] =
           IF Truthy(k.client)
             THEN RegisterReturns(k, k.client, now)
             ELSE [k EXCEPT
                     !.pc = "reg_got_cfg",
                     !.regServerConfig = getServerConfiguration(cache, k.server)]]
         /\ registrations' =
              IF Truthy(k.client)
                THEN [registrations EXCEPT ![k.server].returned = @ \cup {k.client}]
                ELSE registrations
         /\ this' =
              IF Truthy(k.client) THEN ThisAfterRegister(k, k.client) ELSE this
  /\ UNCHANGED <<cache, now, utils, last>>

\* Lines 288-292.  Line 289 ends in a reference to an identifier that is
\* declared nowhere, so the branch throws before its return null.
RegGotConfig(c) ==
  /\ calls[c].pc = "reg_got_cfg"
  /\ LET k == calls[c]
         serverConfig == k.regServerConfig
     IN  /\ calls' = [calls EXCEPT ![c] =
           IF ~Truthy(serverConfig)
             THEN Done(k, Throw("TypeError"))
             ELSE IF ~Truthy(serverConfig.registration_endpoint)
               THEN Done(k, Throw("ReferenceError"))
               ELSE Send(k, RegistrationRequest(serverConfig), "reg_post")]
         /\ registrations' =
              IF Truthy(serverConfig) /\ Truthy(serverConfig.registration_endpoint)
                THEN [registrations EXCEPT ![k.server].posts = Counted(@)]
                ELSE registrations
  /\ UNCHANGED <<cache, now, this, utils, last>>

\* Lines 292-294: the registration endpoint answers.
RegResponse(c) ==
  /\ calls[c].pc = "reg_post"
  /\ \E o \in Outcomes(Pending(calls[c])) :
       LET k == [calls[c] EXCEPT !.data = o.data]
       IN  IF o.ok
             THEN /\ cache' = addClientConfiguration(cache, k.server, o.data)
                  /\ calls' = [calls EXCEPT ![c] = RegisterReturns(k, o.data, now)]
                  /\ registrations' =
                       [registrations EXCEPT ![k.server].returned = @ \cup {o.data}]
                  /\ this' = ThisAfterRegister(k, o.data)
             ELSE /\ calls' = [calls EXCEPT ![c] = Done(k, Throw("RequestError"))]
                  /\ registrations' =
                       [registrations EXCEPT ![k.server].failed = TRUE]
                  /\ UNCHANGED <<cache, this>>
  /\ UNCHANGED <<now, utils, last>>

(* ------------------------------- addServer ----------------------------- *)

\* Lines 128-136 and 104.  With a configuration, line 131 passes it in the
\* server position and passes no configuration.
CallAddServer(c, server, serverConfig) ==
  /\ FirstIdle(c)
  /\ LET k == [Begin("addServer", server) EXCEPT !.arg = serverConfig]
         pushed == addServer(cache, server)
     IN  IF Truthy(serverConfig)
           THEN /\ cache' = addServerConfiguration(
                              pushed, ToPropertyKey(serverConfig), undefined)
                /\ calls' = [calls EXCEPT ![c] = Done(k, Return(serverConfig))]
           ELSE /\ cache' = pushed
                /\ calls' = [calls EXCEPT ![c] =
                     Send(k, GetRequest(WellKnown(server)), "lsc_get")]
  /\ UNCHANGED <<now, registrations, this, utils, last>>

\* Lines 104-106 and 116: the metadata endpoint answers.
DiscoveryResponse(c) ==
  /\ calls[c].pc = "lsc_get"
  /\ \E o \in Outcomes(Pending(calls[c])) :
       LET k == [calls[c] EXCEPT !.data = o.data]
           stored == addServerConfiguration(cache, k.server, o.data)
       IN  IF o.ok
             THEN /\ cache' = stored
                  /\ calls' = [calls EXCEPT ![c] =
                       [k EXCEPT !.pc = "lsk_got_cfg",
                                 !.serverConfig =
                                    getServerConfiguration(stored, k.server)]]
             ELSE /\ calls' = [calls EXCEPT ![c] = Done(k, Throw("RequestError"))]
                  /\ UNCHANGED cache
  /\ UNCHANGED <<now, registrations, this, utils, last>>

\* Line 117.
LskGotConfig(c) ==
  /\ calls[c].pc = "lsk_got_cfg"
  /\ LET k == calls[c]
         config == k.serverConfig
     IN  calls' = [calls EXCEPT ![c] =
           IF ~Truthy(config)
             THEN Done(k, Throw("TypeError"))
             ELSE Send(k, GetRequest(config.jwks_url), "lsk_get")]
  /\ UNCHANGED <<cache, now, registrations, this, utils, last>>

\* Lines 117-119 and 107: the key set endpoint answers.
KeysResponse(c) ==
  /\ calls[c].pc = "lsk_get"
  /\ \E o \in Outcomes(Pending(calls[c])) :
       LET k == calls[c]
       IN  IF o.ok
             THEN /\ cache' = addServerKeys(cache, k.server, o.data)
                  /\ calls' = [calls EXCEPT ![c] = Done(k, Return(k.data))]
             ELSE /\ calls' = [calls EXCEPT ![c] = Done(k, Throw("RequestError"))]
                  /\ UNCHANGED cache
  /\ UNCHANGED <<now, registrations, this, utils, last>>

(* -------------------------- validateAccessToken ------------------------ *)

\* A promise, as a value handed on without being awaited, and the value it
\* resolves to.
Promise(v) == [js |-> "Promise", value |-> v]

\* jose.JWS.createVerify(keystore).verify(token): the verification result
\* for a key store; anything else (undefined, a promise) holds no key the
\* signature could be checked against, and the verification is rejected.
verify(keystore, token) ==
  IF Truthy(keystore) /\ "added" \in DOMAIN keystore
    THEN Return([payload |-> token, keys |-> keystore.added])
    ELSE Throw("Error")

\* Lines 52-54: the new key store, holding the keys added to it.
createKeyStore(serverKeys) == [added |-> serverKeys]

\* Lines 247-248 with 46-56.  getServerKeystore is called and not awaited,
\* so createVerify is handed its promise and the call's outcome is decided
\* here.  The promise resolves to the serverKS of line 46: the block of
\* lines 47-55 declares a serverKS of its own, which is the one assigned and
\* cached.  getServerKeystore runs on: with keys in the store it caches the
\* key store in this same run, otherwise it enters loadServerKeys and awaits
\* (line 116).
CallValidateAccessToken(c, server, token) ==
  /\ FirstIdle(c)
  /\ LET serverKS == this.serverKeyStores[server]
         serverKeys == getServerKeys(cache, server)
         k == [Begin("validateAccessToken", server) EXCEPT
                 !.arg = token,
                 !.client = serverKS,
                 !.verifyWith = Promise(serverKS),
                 !.result = verify(Promise(serverKS), token)]
     IN  IF Truthy(serverKS)
           THEN /\ calls' = [calls EXCEPT ![c] = [k EXCEPT !.pc = "done"]]
                /\ UNCHANGED this
           ELSE IF Truthy(serverKeys)
             THEN /\ calls' = [calls EXCEPT ![c] = [k EXCEPT !.pc = "done"]]
                  /\ this' = [this EXCEPT !.serverKeyStores[server] =
                                 createKeyStore(serverKeys)]
             ELSE /\ calls' = [calls EXCEPT ![c] =
                       [k EXCEPT !.pc = "gsk_got_cfg",
                                 !.serverConfig =
                                    getServerConfiguration(cache, server)]]
                  /\ UNCHANGED this
  /\ UNCHANGED <<cache, now, registrations, utils, last>>

\* Line 117, in getServerKeystore's loadServerKeys.  A failure ends
\* getServerKeystore with nothing cached.
GskGotConfig(c) ==
  /\ calls[c].pc = "gsk_got_cfg"
  /\ LET k == calls[c]
         config == k.serverConfig
     IN  calls' = [calls EXCEPT ![c] =
           IF ~Truthy(config)
             THEN [k EXCEPT !.pc = "done"]
             ELSE IF ~Truthy(config.jwks_url)
               THEN [k EXCEPT !.pc = "done"]
               ELSE Send(k, GetRequest(config.jwks_url), "gsk_get")]
  /\ UNCHANGED <<cache, now, registrations, this, utils, last>>

\* Lines 117-119 and 52-54: the key set endpoint answers getServerKeystore.
GskKeysResponse(c) ==
  /\ calls[c].pc = "gsk_get"
  /\ \E o \in Outcomes(Pending(calls[c])) :
       LET k == [calls[c] EXCEPT !.data = o.data, !.pc = "done"]
       IN  /\ calls' = [calls EXCEPT ![c] = k]
           /\ IF o.ok
                THEN /\ cache' = addServerKeys(cache, k.server, o.data)
                     /\ this' = [this EXCEPT !.serverKeyStores[k.server] =
                                    createKeyStore(o.data)]
                ELSE UNCHANGED <<cache, this>>
  /\ UNCHANGED <<now, registrations, utils, last>>

(* ------------------------------ ServerUtils ---------------------------- *)

\* server.js lines 15-24, up to the value of this.keystore at its return
\* or the error thrown.  With an inline jwks the promise of asKeyStore is
\* stored un-awaited.  With a jwks_uri alone line 20 calls this.getJWKS,
\* which the class does not define (it defines retrieveJWKS): a TypeError.
getKeystoreUtils ==
  IF Truthy(utils.keystore)
    THEN Return(utils.keystore)
    ELSE IF Truthy(utils.serverConfiguration.jwks)
      THEN Return(Promise(asKeyStore(utils.serverConfiguration.jwks)))
      ELSE IF Truthy(utils.serverConfiguration.jwks_uri)
        THEN Throw("TypeError")
        ELSE Return(undefined)

\* this.keystore after getKeystore has run.
UtilsAfterGetKeystore ==
  IF getKeystoreUtils.status = "return"
    THEN [utils EXCEPT !.keystore = getKeystoreUtils.value]
    ELSE utils

\* What awaiting v gives: the value a promise resolves to, or v itself.
Awaited(v) ==
  IF "js" \in DOMAIN v /\ v.js = "Promise" THEN v.value ELSE v

\* ServerUtils.getKeystore(), awaited by its caller.
CallGetKeystore(c) ==
  /\ FirstIdle(c)
  /\ calls' = [calls EXCEPT ![c] =
       Done(Begin("getKeystore", "none"),
            IF getKeystoreUtils.status = "return"
              THEN Return(Awaited(getKeystoreUtils.value))
              ELSE getKeystoreUtils)]
  /\ utils' = UtilsAfterGetKeystore
  /\ UNCHANGED <<cache, now, registrations, this, last>>

\* server.js lines 40-42: createVerify is handed the promise getKeystore
\* returns, not the key store.
CallValidateLocal(c, token) ==
  /\ FirstIdle(c)
  /\ LET keystore == Promise(IF getKeystoreUtils.status = "return"
                               THEN Awaited(getKeystoreUtils.value)
                               ELSE undefined)
         k == [Begin("validateLocal", "none") EXCEPT
                 !.arg = token, !.verifyWith = keystore]
     IN  calls' = [calls EXCEPT ![c] = Done(k, verify(keystore, token))]
  /\ utils' = UtilsAfterGetKeystore
  /\ UNCHANGED <<cache, now, registrations, this, last>>

\* server.js lines 49-61.  The file requires node-jose and querystring
\* only: axios is not declared in it, and line 55 throws a ReferenceError
\* on evaluating it, before any request is made.
CallServerValidate(c, token) ==
  /\ FirstIdle(c)
  /\ LET k == [Begin("serverValidate", "none") EXCEPT !.arg = token]
     IN  calls' = [calls EXCEPT ![c] = Done(k, Throw("ReferenceError"))]
  /\ UNCHANGED <<cache, now, registrations, this, utils, last>>

(* ------------------- one-step methods and the caller ------------------- *)

\* Lines 143-145.
AddClientConfiguration(server, client) ==
  /\ cache' = addClientConfiguration(cache, server, client)
  /\ registrations' = [registrations EXCEPT ![server].manual = TRUE]
  /\ UNCHANGED <<now, calls, this, utils, last>>

\* Lines 152-154.
AddServerConfiguration(server, config) ==
  /\ cache' = addServerConfiguration(cache, server, config)
  /\ UNCHANGED <<now, calls, registrations, this, utils, last>>

\* Lines 185-187.
AddAccessToken(server, token) ==
  /\ cache' = addAccessToken(cache, server, token)
  /\ UNCHANGED <<now, calls, registrations, this, utils, last>>

\* Lines 363-370.
ClearTokens(server) ==
  /\ cache' = clearTokens(cache, server)
  /\ UNCHANGED <<now, calls, registrations, this, utils, last>>

(* --------------------- InMemoryPersistence, called directly ------------ *)

\* Lines 324-326.
StoreAddServer(server) ==
  /\ cache' = addServer(cache, server)
  /\ UNCHANGED <<now, calls, registrations, this, utils, last>>

\* Lines 328-330.
StoreAddServerConfiguration(server, config) ==
  /\ cache' = addServerConfiguration(cache, server, config)
  /\ last' = [last EXCEPT !.serverConfig[server] = config]
  /\ UNCHANGED <<now, calls, registrations, this, utils>>

\* Lines 336-338.
StoreAddClientConfiguration(server, client) ==
  /\ cache' = addClientConfiguration(cache, server, client)
  /\ last' = [last EXCEPT !.clientConfig[server] = client]
  /\ UNCHANGED <<now, calls, registrations, this, utils>>

\* Lines 344-346.
StoreAddAccessToken(server, token) ==
  /\ cache' = addAccessToken(cache, server, token)
  /\ last' = [last EXCEPT !.accessTokens[server] = token]
  /\ UNCHANGED <<now, calls, registrations, this, utils>>

\* Lines 360-362.
StoreAddServerKeys(server, keys) ==
  /\ cache' = addServerKeys(cache, server, keys)
  /\ UNCHANGED <<now, calls, registrations, this, utils, last>>

\* The caller takes the result of a completed call.
Finish(c) ==
  /\ calls[c].pc = "done"
  /\ calls' = [calls EXCEPT ![c] = IdleCall]
  /\ UNCHANGED <<cache, now, registrations, this, utils, last>>

\* Time passes (not while a completed call waits to be taken).
Tick ==
  /\ now < MaxTime
  /\ \A c \in Calls : calls[c].pc # "done"
  /\ now' = now + 1
  /\ UNCHANGED <<cache, calls, registrations, this, utils, last>>

(* --------------------------- specifications ---------------------------- *)

\* The servers the caller of Spec works against.
Targets == {"s1"}

\* One caller that awaits each call before it makes the next: a call is
\* started, and the store is accessed, only while no other call is pending.
Next ==
  \/ \E c \in Calls, s \in Targets :
       Quiescent /\ CallRequestAccessToken(c, s)
  \/ \E c \in Calls, s \in Targets :
       Quiescent /\ CallRequestToken(c, s)
  \/ \E c \in Calls, s \in Targets :
       Quiescent /\ CallRegister(c, s)
  \/ \E c \in Calls, s \in Targets :
       \E cfg \in ServerConfigs(s) \cup {null} :
         Quiescent /\ CallAddServer(c, s, cfg)
  \/ \E c \in Calls : RatCheck(c)
  \/ \E c \in Calls : TokenResponse(c)
  \/ \E c \in Calls : RtGot(c)
  \/ \E c \in Calls : RegGotClient(c)
  \/ \E c \in Calls : RegGotConfig(c)
  \/ \E c \in Calls : RegResponse(c)
  \/ \E c \in Calls : DiscoveryResponse(c)
  \/ \E c \in Calls : LskGotConfig(c)
  \/ \E c \in Calls : KeysResponse(c)
  \/ \E c \in Calls : Finish(c)
  \/ \E s \in Targets, cl \in ClientConfigs :
       Quiescent /\ AddClientConfiguration(s, cl)
  \/ \E s \in Targets :
       \E cfg \in ServerConfigs(s) :
         Quiescent /\ AddServerConfiguration(s, cfg)
  \/ \E s \in Targets, tok \in ManualTokens(now) :
       Quiescent /\ AddAccessToken(s, tok)
  \/ \E s \in Targets \cup {""} :
       Quiescent /\ ClearTokens(s)
  \/ Tick

Spec == Init /\ [][Next]_vars

\* A Client constructed with any of the key sets and options, registering
\* and requesting tokens, one call at a time.
InitKeys ==
  /\ InitStore
  /\ \E jwks \in ClientKeySets, options \in ClientOptions :
       this = NewClient(jwks, options)
  /\ utils = TestServerUtils

NextKeys ==
  \/ \E c \in Calls, s \in Targets :
       Quiescent /\ CallRequestAccessToken(c, s)
  \/ \E c \in Calls, s \in Targets :
       Quiescent /\ CallRegister(c, s)
  \/ \E c \in Calls : RatCheck(c)
  \/ \E c \in Calls : TokenResponse(c)
  \/ \E c \in Calls : RegGotClient(c)
  \/ \E c \in Calls : RegGotConfig(c)
  \/ \E c \in Calls : RegResponse(c)
  \/ \E c \in Calls : Finish(c)
  \/ \E s \in Targets, cl \in ClientConfigs :
       Quiescent /\ AddClientConfiguration(s, cl)
  \/ \E s \in Targets :
       \E cfg \in ServerConfigs(s) :
         Quiescent /\ AddServerConfiguration(s, cfg)

SpecKeys == InitKeys /\ [][NextKeys]_vars

\* Callers that do not wait for one another: requestAccessToken and register
\* are started while another call is pending, and the calls in flight
\* resume in any order.
NextConc ==
  \/ \E c \in Calls, s \in Targets : CallRequestAccessToken(c, s)
  \/ \E c \in Calls, s \in Targets : CallRegister(c, s)
  \/ \E c \in Calls : RatCheck(c)
  \/ \E c \in Calls : TokenResponse(c)
  \/ \E c \in Calls : RegGotClient(c)
  \/ \E c \in Calls : RegGotConfig(c)
  \/ \E c \in Calls : RegResponse(c)
  \/ \E c \in Calls : Finish(c)
  \/ \E s \in Targets, cl \in ClientConfigs :
       Quiescent /\ AddClientConfiguration(s, cl)
  \/ \E s \in Targets :
       \E cfg \in ServerConfigs(s) :
         Quiescent /\ AddServerConfiguration(s, cfg)

SpecConc == Init /\ [][NextConc]_vars

\* Received tokens are validated, one call at a time, for servers whose
\* configuration or keys may have been stored before.
NextVerify ==
  \/ \E c \in Calls, s \in Servers, token \in BearerTokens :
       Quiescent /\ CallValidateAccessToken(c, s, token)
  \/ \E c \in Calls : GskGotConfig(c)
  \/ \E c \in Calls : GskKeysResponse(c)
  \/ \E c \in Calls : Finish(c)
  \/ \E s \in Servers :
       \E cfg \in ServerConfigs(s) \cup {DocInline(s)} :
         Quiescent /\ AddServerConfiguration(s, cfg)
  \/ \E s \in Servers, keys \in ServerKeySets :
       Quiescent /\ StoreAddServerKeys(s, keys)

SpecVerify == Init /\ [][NextVerify]_vars

\* A ServerUtils constructed with any of the configurations.
InitUtils ==
  /\ InitStore
  /\ this = TestClient
  /\ \E serverConfiguration \in UtilsConfigs :
       utils = NewServerUtils(serverConfiguration)

NextUtils ==
  \/ \E c \in Calls : CallGetKeystore(c)
  \/ \E c \in Calls, token \in BearerTokens : CallValidateLocal(c, token)
  \/ \E c \in Calls, token \in BearerTokens : CallServerValidate(c, token)
  \/ \E c \in Calls : Finish(c)

SpecUtils == InitUtils /\ [][NextUtils]_vars

\* The store alone, used directly for every server.
NextStore ==
  \/ \E s \in Servers : StoreAddServer(s)
  \/ \E s \in Servers :
       \E cfg \in ServerConfigs(s) : StoreAddServerConfiguration(s, cfg)
  \/ \E s \in Servers, cl \in ClientConfigs :
       StoreAddClientConfiguration(s, cl)
  \/ \E s \in Servers, tok \in ManualTokens(now) :
       StoreAddAccessToken(s, tok)
  \/ \E s \in Servers, keys \in ServerKeySets : StoreAddServerKeys(s, keys)

SpecStore == Init /\ [][NextStore]_vars

(* ------------------------------ properties ----------------------------- *)

\* The cached token, client configuration and server configuration of the
\* server of call k when k started.
TokenAtStart(k) ==
  IF k.pc = "idle" THEN undefined ELSE k.pre.accessTokens[k.server]
ClientAtStart(k) ==
  IF k.pc = "idle" THEN undefined ELSE k.pre.clientConfig[k.server]
ConfigAtStart(k) ==
  IF k.pc = "idle" THEN undefined ELSE k.pre.servers.props[k.server]

Completed(k, op) == k.pc = "done" /\ k.op = op

IsTokenPost(req, config) ==
  req.method = "POST" /\ req.url = config.token_endpoint

IsRegistrationPost(req, config) ==
  req.method = "POST" /\ req.url = config.registration_endpoint

\* C1 (token reuse): a requestAccessToken call that finds a cached token
\* with issued_at + expires_in > now sends nothing on the network, leaves
\* the store as it was, and returns exactly that cached token.
C1_TokenReuse ==
  \A c \in Calls :
    LET k == calls[c]
        tok == TokenAtStart(k)
    IN  (/\ Completed(k, "requestAccessToken")
         /\ Truthy(tok)
         /\ tok.issued_at + tok.expires_in > k.checkedAt)
        => (/\ k.sent = <<>>
            /\ cache = k.pre
            /\ k.result = Return(tok))

\* A call answered from the cache with a token that had lifetime left.
C1_Witness ==
  \E c \in Calls :
    /\ Completed(calls[c], "requestAccessToken")
    /\ Truthy(TokenAtStart(calls[c]))
    /\ TokenAtStart(calls[c]).issued_at + TokenAtStart(calls[c]).expires_in
         > calls[c].checkedAt
    /\ calls[c].checkedAt > TokenAtStart(calls[c]).issued_at
    /\ calls[c].result = Return(TokenAtStart(calls[c]))

\* C2 (expiry boundary): a requestAccessToken call that finds a cached token
\* with issued_at + expires_in <= now (equality included) never answers from
\* the cache: whatever it returns is the stamped answer to a token-endpoint
\* POST it sent, and with a client configuration and a server configuration
\* in the store it does send that POST.
C2_ExpiryBoundary ==
  \A c \in Calls :
    LET k == calls[c]
        tok == TokenAtStart(k)
    IN  (/\ Completed(k, "requestAccessToken")
         /\ Truthy(tok)
         /\ tok.issued_at + tok.expires_in <= k.checkedAt)
        => (/\ k.result.status = "return" =>
                 /\ k.sent # <<>>
                 /\ IsTokenPost(k.sent[Len(k.sent)], ConfigAtStart(k))
                 /\ k.result.value.access_token = k.data.access_token
            /\ (Truthy(ClientAtStart(k)) /\ Truthy(ConfigAtStart(k))) =>
                 \E i \in 1..Len(k.sent) :
                    IsTokenPost(k.sent[i], ConfigAtStart(k)))

\* A call that found a token expiring exactly now and exchanged a new one.
C2_Witness ==
  \E c \in Calls :
    /\ Completed(calls[c], "requestAccessToken")
    /\ Truthy(TokenAtStart(calls[c]))
    /\ TokenAtStart(calls[c]).issued_at + TokenAtStart(calls[c]).expires_in
         = calls[c].checkedAt
    /\ TokenAtStart(calls[c]).expires_in > 0
    /\ calls[c].result.status = "return"
    /\ calls[c].sent # <<>>

C4_RegistrationIdempotent ==
  /\ \A s \in Servers :
       LET h == registrations[s]
       IN  (~h.failed /\ ~h.manual)
           => (/\ h.posts <= 1
               /\ h.returned # {}
                  => (/\ h.posts = 1
                      /\ h.returned = {cache.clientConfig[s]}))
  /\ \A c \in Calls :
       LET k == calls[c]
       IN  (Completed(k, "register") /\ Truthy(ClientAtStart(k)))
           => (/\ k.sent = <<>>
               /\ k.result = Return(ClientAtStart(k))
               /\ cache = k.pre)

\* A second register call has returned what the first one stored.
C4_Witness ==
  \E c \in Calls :
    /\ Completed(calls[c], "register")
    /\ registrations[calls[c].server].posts = 1
    /\ ~registrations[calls[c].server].failed
    /\ ~registrations[calls[c].server].manual
    /\ Truthy(ClientAtStart(calls[c]))
    /\ calls[c].sent = <<>>
    /\ calls[c].result = Return(cache.clientConfig[calls[c].server])

\* C5 (self-registration before the exchange): in a requestAccessToken call
\* that started without a stored client configuration, a token-endpoint POST
\* is the second request, after the registration POST; when it is sent the
\* registration response is the stored client configuration, and the
\* assertion carries the client_id of that response as sub and iss.
C5_RegisterBeforeToken ==
  \A c \in Calls :
    LET k == calls[c]
    IN  (/\ k.op \in {"requestAccessToken", "requestToken"}
         /\ ~Truthy(ClientAtStart(k)))
        => \A i \in 1..Len(k.sent) :
             IsTokenPost(k.sent[i], ConfigAtStart(k))
             => (/\ i = 2
                 /\ IsRegistrationPost(k.sent[1], ConfigAtStart(k))
                 /\ Truthy(cache.clientConfig[k.server])
                 /\ k.pc = "tok_post" => cache.clientConfig[k.server] = k.data
                 /\ k.sent[i].body.client_assertion.sub
                      = cache.clientConfig[k.server].client_id
                 /\ k.sent[i].body.client_assertion.iss
                      = cache.clientConfig[k.server].client_id)

\* The token POST of a call that had to register first is in flight.
C5_Witness ==
  \E c \in Calls :
    /\ calls[c].op = "requestAccessToken"
    /\ calls[c].pc = "tok_post"
    /\ ~Truthy(ClientAtStart(calls[c]))
    /\ Len(calls[c].sent) = 2

\* C6 (missing client): requestAccessToken on a server whose stored
\* configuration has no registration endpoint, with no stored client
\* configuration and no fresh cached token, throws "Client information not
\* found", sends nothing and leaves the store as it was.
C6_MissingClient ==
  \A c \in Calls :
    LET k == calls[c]
        tok == TokenAtStart(k)
    IN  (/\ Completed(k, "requestAccessToken")
         /\ Truthy(ConfigAtStart(k))
         /\ ~Truthy(ConfigAtStart(k).registration_endpoint)
         /\ ~Truthy(ClientAtStart(k))
         /\ ~(Truthy(tok) /\ tok.issued_at + tok.expires_in > k.checkedAt))
        => (/\ k.result = Throw("Client information not found")
            /\ k.sent = <<>>
            /\ cache = k.pre)

\* Such a call has failed, with an expired token in the cache.
C6_Witness ==
  \E c \in Calls :
    /\ Completed(calls[c], "requestAccessToken")
    /\ Truthy(ConfigAtStart(calls[c]))
    /\ ~Truthy(ConfigAtStart(calls[c]).registration_endpoint)
    /\ ~Truthy(ClientAtStart(calls[c]))
    /\ Truthy(TokenAtStart(calls[c]))
    /\ calls[c].result.status = "throw"

\* C7 (a successful exchange is cached): what a call returns after its token
\* POST was answered is the response with issued_at = now, and it is the
\* cached token of the server; a requestAccessToken call that finds a cached
\* token with expires_in > 0 at the very time it was issued returns it with
\* nothing sent and the store untouched.
C7_ExchangeCached ==
  \A c \in Calls :
    LET k == calls[c]
        tok == TokenAtStart(k)
    IN  /\ (/\ k.pc = "done"
            /\ k.op \in {"requestAccessToken", "requestToken"}
            /\ k.result.status = "return"
            /\ k.sent # <<>>)
           => (/\ k.result.value =
                    [access_token |-> k.data.access_token,
                     expires_in |-> k.data.expires_in,
                     issued_at |-> now]
               /\ getAccessToken(cache, k.server) = k.result.value)
        /\ (/\ Completed(k, "requestAccessToken")
            /\ Truthy(tok)
            /\ tok.expires_in > 0
            /\ k.checkedAt = tok.issued_at)
           => (/\ k.result = Return(tok)
               /\ k.sent = <<>>
               /\ cache = k.pre)

\* A call right after an exchange has returned the exchanged token from the
\* cache, at a time other than 0.
C7_Witness ==
  \E c \in Calls :
    /\ Completed(calls[c], "requestAccessToken")
    /\ Truthy(TokenAtStart(calls[c]))
    /\ TokenAtStart(calls[c]).access_token = "t1"
    /\ TokenAtStart(calls[c]).expires_in > 0
    /\ TokenAtStart(calls[c]).issued_at = calls[c].checkedAt
    /\ calls[c].checkedAt > 0
    /\ calls[c].sent = <<>>
    /\ calls[c].result = Return(TokenAtStart(calls[c]))

\* C8 (addServer with a configuration): after addServer(server, config) the
\* stored configuration of the server is config, nothing was sent and no
\* server keys were stored.
C8_AddServerStoresConfig ==
  \A c \in Calls :
    LET k == calls[c]
    IN  (Completed(k, "addServer") /\ Truthy(k.arg))
        => (/\ getServerConfiguration(cache, k.server) = k.arg
            /\ k.sent = <<>>
            /\ cache.serverKeys = k.pre.serverKeys)

\* C9 (discovery with partial success): addServer(server) without a
\* configuration stores the discovered document under the server, then
\* requests the key set from the document's jwks_uri (for a document that
\* has one) and stores it; a failed key fetch fails the call and leaves the
\* document stored; a failed discovery stores neither a document nor keys.
C9_DiscoveryThenKeys ==
  \A c \in Calls :
    LET k == calls[c]
    IN  (/\ Completed(k, "addServer")
         /\ ~Truthy(k.arg)
         /\ Truthy(k.data) => Truthy(k.data.jwks_uri))
        => IF Truthy(k.data)
             THEN /\ getServerConfiguration(cache, k.server) = k.data
                  /\ Len(k.sent) = 2
                  /\ k.sent[2] = GetRequest(k.data.jwks_uri)
                  /\ k.result.status = "return"
                     => (/\ Truthy(cache.serverKeys[k.server])
                         /\ k.result.value = k.data)
                  /\ k.result.status = "throw"
                     => cache.serverKeys = k.pre.serverKeys
             ELSE /\ k.result.status = "throw"
                  /\ cache.servers.props = k.pre.servers.props
                  /\ cache.serverKeys = k.pre.serverKeys

\* C10 (no registration available): register on a server whose stored
\* configuration has no registration endpoint, with no stored client
\* configuration, returns null without an error, sends nothing and leaves
\* the store as it was.
C10_NoRegistrationReturnsNull ==
  \A c \in Calls :
    LET k == calls[c]
    IN  (/\ Completed(k, "register")
         /\ Truthy(ConfigAtStart(k))
         /\ ~Truthy(ConfigAtStart(k).registration_endpoint)
         /\ ~Truthy(ClientAtStart(k)))
        => (/\ k.result = Return(null)
            /\ k.sent = <<>>
            /\ cache = k.pre)

\* The token-endpoint POSTs among the requests of call k.
TokenPosts(k) ==
  {i \in 1..Len(k.sent) :
     k.sent[i].method = "POST" /\ k.sent[i].url.path = "/auth/token"}

\* The token-endpoint POST of call k was its last request and was rejected.
ExchangeFailed(k) ==
  /\ k.pc = "done"
  /\ k.op = "requestAccessToken"
  /\ k.sent # <<>>
  /\ Len(k.sent) \in TokenPosts(k)
  /\ k.data = undefined

\* C18 (a failed exchange is not retried and changes nothing): when the
\* token-endpoint POST of a requestAccessToken call is rejected, the call
\* fails with the request's error, that POST is the only token-endpoint POST
\* of the call, and the cached token of the server is what it was when the
\* call started.
C18_FailedExchange ==
  \A c \in Calls :
    LET k == calls[c]
    IN  ExchangeFailed(k)
        => (/\ k.result = Throw("RequestError")
            /\ Cardinality(TokenPosts(k)) = 1
            /\ getAccessToken(cache, k.server) = TokenAtStart(k))

\* An exchange has failed while an expired token was cached.
C18_Witness ==
  \E c \in Calls :
    /\ ExchangeFailed(calls[c])
    /\ calls[c].result.status = "throw"
    /\ Truthy(TokenAtStart(calls[c]))
    /\ getAccessToken(cache, calls[c].server) = TokenAtStart(calls[c])

\* C19 (unknown server): requestAccessToken on a server with no stored
\* configuration, no stored client configuration and no fresh cached token
\* throws "Client information not found", as it does for a server without a
\* registration endpoint, and sends nothing.
C19_UnknownServer ==
  \A c \in Calls :
    LET k == calls[c]
        tok == TokenAtStart(k)
    IN  (/\ Completed(k, "requestAccessToken")
         /\ ~Truthy(ConfigAtStart(k))
         /\ ~Truthy(ClientAtStart(k))
         /\ ~(Truthy(tok) /\ tok.issued_at + tok.expires_in > k.checkedAt))
        => (/\ k.result = Throw("Client information not found")
            /\ k.sent = <<>>)

\* C11 (private key confidentiality): the body of every registration POST
\* carries either a jwks_uri and no keys, or keys that are public halves
\* only (no key with its private exponent d).
C11_PrivateKeyConfidential ==
  \A c \in Calls :
    \A i \in 1..Len(calls[c].sent) :
      LET req == calls[c].sent[i]
      IN  (req.method = "POST" /\ req.url.path = "/auth/register")
          => \/ Truthy(req.body.jwks_uri) /\ ~Truthy(req.body.jwks)
             \/ /\ Truthy(req.body.jwks)
                /\ \A j \in 1..Len(req.body.jwks.keys) :
                     req.body.jwks.keys[j] = PublicHalf(req.body.jwks.keys[j])

\* The key an assertion is to be signed with: the key of the signingKeyId,
\* or without one the first key of the key set whose use is "sig"; null when
\* there is no such key.
SigningKey ==
  IF this.signingKeyId # ""
    THEN get(asKeyStore(this.jwks), this.signingKeyId)
    ELSE IF all(asKeyStore(this.jwks), "sig") = <<>>
           THEN null
           ELSE all(asKeyStore(this.jwks), "sig")[1]

\* C20 (signing key selection): the assertion of every token-endpoint POST
\* is signed by the key of the signingKeyId, or without one by the first
\* "sig" key of the key set; a call fails in signing only when that key does
\* not exist, and then it has sent no token-endpoint POST.
C20_SigningKeySelection ==
  \A c \in Calls :
    LET k == calls[c]
    IN  /\ \A i \in TokenPosts(k) :
             /\ Truthy(SigningKey)
             /\ k.sent[i].body.client_assertion.signer = SigningKey.kid
        /\ (k.pc = "done" /\ k.result = Throw("Error"))
           => (~Truthy(SigningKey) /\ TokenPosts(k) = {})

StartsExchange(c) ==
  Cardinality(TokenPosts(calls'[c])) > Cardinality(TokenPosts(calls[c]))

\* C13 (concurrent token acquisition behaves as if serialized): no call
\* sends a token-endpoint POST for a server while the store holds a token
\* for that server with issued_at + expires_in > now.
C13_NoExchangeOverFreshToken ==
  [][\A c \in Calls :
       StartsExchange(c)
       => LET tok == getAccessToken(cache, calls'[c].server)
          IN  ~(Truthy(tok) /\ tok.issued_at + tok.expires_in > now)]_vars

\* C17 (the client configuration is created once): for a server whose
\* client configuration was never stored by hand and whose registration
\* POSTs have not failed, at most one registration POST is ever sent and
\* register never returns (nor stores) a second, different configuration.
C17_RegisteredOnce ==
  \A s \in Servers :
    LET h == registrations[s]
    IN  (~h.failed /\ ~h.manual)
        => (/\ h.posts <= 1
            /\ Cardinality(h.returned) <= 1
            /\ \A v \in h.returned : cache.clientConfig[s] = v)

\* C16 (server verification keystore on first use): a validateAccessToken
\* call for a server whose verification keys are in the store, or were
\* fetched and stored by the call, verifies against a key store built from
\* those keys, and succeeds on them, the first call as the later ones; a
\* call that finds the server's key store cached sends nothing.
C16_KeystoreOnFirstUse ==
  \A c \in Calls :
    LET k == calls[c]
    IN  Completed(k, "validateAccessToken")
        => (/\ Truthy(getServerKeys(cache, k.server))
               => (/\ k.verifyWith =
                        createKeyStore(getServerKeys(cache, k.server))
                   /\ k.result.status = "return")
            /\ Truthy(k.client) => k.sent = <<>>)

\* C14 (the validator's keystore resolves once): getKeystore and
\* validateLocal send nothing for a validator with an inline jwks or with
\* neither jwks nor jwks_uri, and the latter keeps its keystore unresolved;
\* for a validator with a jwks_uri only, the first call fetches that URI
\* once, after which the keystore is resolved and cached, getKeystore
\* returns it, and later calls fetch nothing.
C14_KeystoreResolvesOnce ==
  \A c \in Calls :
    LET k == calls[c]
        config == utils.serverConfiguration
    IN  (k.pc = "done" /\ k.op \in {"getKeystore", "validateLocal"})
        => (/\ Truthy(config.jwks) => k.sent = <<>>
            /\ (~Truthy(config.jwks) /\ ~Truthy(config.jwks_uri))
               => (k.sent = <<>> /\ ~Truthy(utils.keystore))
            /\ (~Truthy(config.jwks) /\ Truthy(config.jwks_uri))
               => (/\ Truthy(utils.keystore)
                   /\ Len(k.sent) <= 1
                   /\ k.op = "getKeystore"
                      => k.result = Return(Awaited(utils.keystore))))

\* C15 (three introspection outcomes): serverValidate on a validator with
\* an introspection endpoint sends exactly one POST, to that endpoint, and
\* fails only when that request was rejected; the answer's body is returned
\* when it is active, and a value that is no error otherwise.
C15_IntrospectionOutcomes ==
  \A c \in Calls :
    LET k == calls[c]
        config == utils.serverConfiguration
    IN  (Completed(k, "serverValidate")
         /\ Truthy(config.introspection_endpoint))
        => (/\ Len(k.sent) = 1
            /\ k.sent[1].method = "POST"
            /\ k.sent[1].url = config.introspection_endpoint
            /\ k.result.status = "throw" => ~Truthy(k.data)
            /\ k.result.status = "return"
               => k.result.value \in {k.data, null})

====
